---- MODULE Spec2Model ----
(***************************************************************************)
(* Model of the schema lowering documented in astro-schema-examples: a     *)
(* collection's Zod schema (content.config.ts) is resolved, lowered to a   *)
(* JSON Schema Draft-7 fragment and wrapped in the per-collection document *)
(* (.astro/collections/<name>.schema.json).                                *)
(*                                                                         *)
(* Encoding of JSON values.  A JSON object is a TLA+ record/function from  *)
(* key to value, a JSON array of strings or of schemas is a sequence.  TLC *)
(* cannot compare values of different shapes under one key, so             *)
(*   - a JSON scalar is tagged by its primitive type: JStr, JNum, JBool;   *)
(*   - the boolean schema `false` under additionalProperties is JFalse;    *)
(*   - a positional `items` list is ItemsList(<<...>>), a single `items`   *)
(*     schema is the fragment itself.                                      *)
(***************************************************************************)
EXTENDS Integers, Sequences, FiniteSets, TLC

VARIABLES project, pc, tree, entry, doc, err, todo, visited, frags

vars == <<project, pc, tree, entry, doc, err, todo, visited, frags>>

(* the state of a traversal: the paths being lowered, innermost first, the *)
(* paths lowered so far in the order they were finished, and the fragment  *)
(* of every lowered path                                                   *)
walk == <<todo, visited, frags>>

-----------------------------------------------------------------------------
(* JSON values *)

JStr(s) == [str |-> s]
JNum(n) == [num |-> n]
JBool(b) == [bool |-> b]

JObject(o) == [object |-> o]

JFalse == JBool(FALSE)

ItemsList(fs) == [list |-> fs]

EmptyObj == [k \in {} |-> 0]

PrimitiveType(v) ==
  IF "str" \in DOMAIN v THEN "string"
  ELSE IF "num" \in DOMAIN v THEN "number"
  ELSE "boolean"

-----------------------------------------------------------------------------
(* Schema nodes: the Zod calls of content.config.ts *)

NoBound == [set |-> FALSE]
Bound(n) == [set |-> TRUE, n |-> n]
BoundMsg(n, m) == [set |-> TRUE, n |-> n, msg |-> m]

Refinement(m) == [type |-> "refinement", message |-> m]
Transform == [type |-> "transform"]

zString == [kind |-> "String", min |-> NoBound, max |-> NoBound, format |-> "none", effects |-> <<>>]
(* the checks of a number in the order of the calls that added them *)
Integer == [check |-> "int", value |-> 0]
Positive == [check |-> "positive", value |-> 0]
Min(n) == [check |-> "min", value |-> n]
Max(n) == [check |-> "max", value |-> n]

zNumber == [kind |-> "Number", checks |-> <<>>, effects |-> <<>>]
zNumberOf(cs) == [zNumber EXCEPT !.checks = cs]
zBoolean == [kind |-> "Boolean", effects |-> <<>>]
zDate == [kind |-> "Date", coerce |-> FALSE, effects |-> <<>>]
zCoerceDate == [kind |-> "Date", coerce |-> TRUE, effects |-> <<>>]
zLiteral(v) == [kind |-> "Literal", value |-> v, effects |-> <<>>]
zEnum(vs) == [kind |-> "Enum", values |-> [lits |-> vs], effects |-> <<>>]
zEnumOf(id) == [kind |-> "Enum", values |-> [ident |-> id], effects |-> <<>>]
zArray(t) == [kind |-> "Array", element |-> t, min |-> NoBound, max |-> NoBound, effects |-> <<>>]
zTuple(ts) == [kind |-> "Tuple", elements |-> ts, effects |-> <<>>]
zObject(fs) == [kind |-> "Object", fields |-> fs, effects |-> <<>>]
zRecord(v) == [kind |-> "Record", value |-> v, effects |-> <<>>]
zUnion(vs) == [kind |-> "Union", variants |-> vs, effects |-> <<>>]
zDiscriminatedUnion(k, vs) == [kind |-> "DiscriminatedUnion", key |-> k, variants |-> vs, effects |-> <<>>]
reference(c) == [kind |-> "Reference", collection |-> c, effects |-> <<>>]
image == [kind |-> "Image", effects |-> <<>>]
Use(id) == [kind |-> "Ident", ident |-> id]

(* Field modifiers: .optional(), .default(v), .describe(text) *)
NoDefault == [has |-> FALSE]
DefaultLit(v) == [has |-> TRUE, value |-> v]
DefaultOf(id) == [has |-> TRUE, ident |-> id]
NoDescription == [has |-> FALSE]
Describe(t) == [has |-> TRUE, text |-> t]

Plain == [optional |-> FALSE, default |-> NoDefault, description |-> NoDescription]
Optional == [Plain EXCEPT !.optional = TRUE]
Default(v) == [Plain EXCEPT !.default = DefaultLit(v)]
Described(t) == [Plain EXCEPT !.description = Describe(t)]

Field(n, t, m) == [name |-> n, node |-> t, mods |-> m]

-----------------------------------------------------------------------------
(* Lowering: Zod node -> JSON Schema fragment *)

Strs(ss) == [i \in DOMAIN ss |-> JStr(ss[i])]

RECURSIVE MapNames(_)
MapNames(fs) == IF fs = <<>> THEN <<>> ELSE <<Head(fs).name>> \o MapNames(Tail(fs))

IsRequiredIgnoringDefault(f) == ~f.mods.optional

IsRequired(f) == ~f.mods.optional /\ ~f.mods.default.has

(* the `required` array of an object: declaration order *)
required(fs) == MapNames(SelectSeq(fs, IsRequired))

FieldNames(fs) == {fs[i].name : i \in DOMAIN fs}

FieldNamed(fs, n) == fs[CHOOSE i \in DOMAIN fs : fs[i].name = n]

DateAnyOf ==
  [anyOf |-> << [type |-> "string", format |-> "date-time"],
                [type |-> "string", format |-> "date"],
                [type |-> "integer", format |-> "unix-time"] >>]

ReferenceObject(k) ==
  [type |-> "object",
   properties |-> (k :> [type |-> "string"]) @@ ("collection" :> [type |-> "string"]),
   required |-> <<k, "collection">>,
   additionalProperties |-> JFalse]

ReferenceAnyOf ==
  [anyOf |-> << [type |-> "string"], ReferenceObject("id"), ReferenceObject("slug") >>]

ReferenceObjectNaming(k, c) ==
  [ReferenceObject(k) EXCEPT !.properties =
     (k :> [type |-> "string"]) @@ ("collection" :> [type |-> "string", const |-> JStr(c)])]

lowerReferenceNamingTarget(node) ==
  [anyOf |-> << [type |-> "string"], ReferenceObjectNaming("id", node.collection),
                ReferenceObjectNaming("slug", node.collection) >>]

(* reference(c): the same three shapes for every target collection *)
lowerReference(node) == ReferenceAnyOf

FormatOf(f) == IF f = "email" THEN [format |-> "email"]
               ELSE IF f = "url" THEN [format |-> "uri"]
               ELSE EmptyObj

KeyIf(b, k) == IF b.set THEN k :> b.n ELSE EmptyObj

MessageIfSet(b, k) ==
  IF b.set THEN k :> (IF "msg" \in DOMAIN b THEN b.msg ELSE "Invalid input") ELSE EmptyObj

MessageIf(b, k) == IF b.set /\ "msg" \in DOMAIN b THEN k :> b.msg ELSE EmptyObj

errorMessage(ms) == IF ms = EmptyObj THEN EmptyObj ELSE [errorMessage |-> ms]

effectKeysWithMessage(node) ==
  IF node.effects # <<>> THEN [errorMessage |-> [refinement |-> "custom"]] ELSE EmptyObj

(* .refine() and .transform() have no representation in the output *)
effectKeys(node) == EmptyObj

lowerDateStrict(node) ==
  IF node.coerce THEN [type |-> "string", format |-> "date-time"] ELSE DateAnyOf

lowerDate(node) == DateAnyOf

lowerString(node) ==
  [type |-> "string"] @@ KeyIf(node.min, "minLength") @@ KeyIf(node.max, "maxLength")
    @@ FormatOf(node.format)

applyCheckResetting(frag, ch) ==
  CASE ch.check = "int" -> [type |-> "integer"]
    [] ch.check = "positive" -> [exclusiveMinimum |-> 0] @@ frag
    [] ch.check = "min" -> [minimum |-> ch.value] @@ frag
    [] ch.check = "max" -> [maximum |-> ch.value] @@ frag

(* one check of a number written into the fragment built so far *)
applyCheck(frag, ch) ==
  CASE ch.check = "int" -> [frag EXCEPT !.type = "integer"]
    [] ch.check = "positive" -> [exclusiveMinimum |-> 0] @@ frag
    [] ch.check = "min" -> [minimum |-> ch.value] @@ frag
    [] ch.check = "max" -> [maximum |-> ch.value] @@ frag

RECURSIVE lowerChecks(_, _)
lowerChecks(frag, cs) ==
  IF cs = <<>> THEN frag ELSE lowerChecks(applyCheck(frag, Head(cs)), Tail(cs))

lowerNumber(node) == lowerChecks([type |-> "number"], node.checks)

lowerLiteral(node) == [type |-> PrimitiveType(node.value), const |-> node.value]

lowerEnum(node) == [type |-> "string", enum |-> Strs(node.values.lits)]

AllLiterals(vs) == \A i \in DOMAIN vs : vs[i].kind = "Literal"

SameLiteralType(vs) ==
  \A i, j \in DOMAIN vs : PrimitiveType(vs[i].value) = PrimitiveType(vs[j].value)

UnionNeverCollapses(vs) == FALSE

UnionCollapses(vs) == vs # <<>> /\ AllLiterals(vs) /\ SameLiteralType(vs)

descriptionKeyAlone(m) ==
  IF m.description.has THEN [description |-> m.description.text] ELSE EmptyObj

descriptionKeys(m) ==
  IF m.description.has
  THEN [description |-> m.description.text, markdownDescription |-> m.description.text]
  ELSE EmptyObj

defaultKey(m) == IF m.default.has THEN [default |-> m.default.value] ELSE EmptyObj

RECURSIVE lowerNode(_)

AllOptional(node) ==
  IF node.kind = "Object"
  THEN [node EXCEPT !.fields =
          [i \in DOMAIN node.fields |-> [node.fields[i] EXCEPT !.mods.optional = TRUE]]]
  ELSE node

lowerPropagating(node, m) ==
  lowerNode(IF m.optional THEN AllOptional(node) ELSE node) @@ descriptionKeys(m) @@ defaultKey(m)

(* lower(node, modifiers): the fragment emitted at a field site *)
lower(node, m) == lowerNode(node) @@ descriptionKeys(m) @@ defaultKey(m)

lowerObjectAlwaysRequired(node) ==
  [type |-> "object",
   properties |-> [n \in FieldNames(node.fields) |->
                     LET f == FieldNamed(node.fields, n) IN lower(f.node, f.mods)],
   additionalProperties |-> JFalse,
   required |-> required(node.fields)]

lowerObject(node) ==
  [type |-> "object",
   properties |-> [n \in FieldNames(node.fields) |->
                     LET f == FieldNamed(node.fields, n) IN lower(f.node, f.mods)],
   additionalProperties |-> JFalse]
    @@ (IF required(node.fields) # <<>> THEN [required |-> required(node.fields)] ELSE EmptyObj)

lowerArray(node) ==
  [type |-> "array", items |-> lowerNode(node.element)]
    @@ KeyIf(node.min, "minItems") @@ KeyIf(node.max, "maxItems")
    @@ errorMessage(MessageIf(node.min, "minItems") @@ MessageIf(node.max, "maxItems"))

lowerTupleUniform(node) ==
  [type |-> "array", minItems |-> Len(node.elements), maxItems |-> Len(node.elements),
   items |-> ItemsList([i \in DOMAIN node.elements |-> lowerNode(node.elements[1])])]

lowerTuple(node) ==
  [type |-> "array", minItems |-> Len(node.elements), maxItems |-> Len(node.elements),
   items |-> ItemsList([i \in DOMAIN node.elements |-> lowerNode(node.elements[i])])]

lowerRecordWithProperties(node) ==
  [type |-> "object", properties |-> EmptyObj, additionalProperties |-> lowerNode(node.value)]

lowerRecord(node) == [type |-> "object", additionalProperties |-> lowerNode(node.value)]

lowerUnion(node) ==
  IF UnionCollapses(node.variants)
  THEN [type |-> PrimitiveType(node.variants[1].value),
        enum |-> [i \in DOMAIN node.variants |-> node.variants[i].value]]
  ELSE [anyOf |-> [i \in DOMAIN node.variants |-> lowerNode(node.variants[i])]]

lowerDiscriminatedUnion(node) ==
  [anyOf |-> [i \in DOMAIN node.variants |-> lowerNode(node.variants[i])]]

lowerNode(node) ==
  (CASE node.kind = "String" -> lowerString(node)
     [] node.kind = "Number" -> lowerNumber(node)
     [] node.kind = "Boolean" -> [type |-> "boolean"]
     [] node.kind = "Date" -> lowerDate(node)
     [] node.kind = "Literal" -> lowerLiteral(node)
     [] node.kind = "Enum" -> lowerEnum(node)
     [] node.kind = "Array" -> lowerArray(node)
     [] node.kind = "Tuple" -> lowerTuple(node)
     [] node.kind = "Object" -> lowerObject(node)
     [] node.kind = "Record" -> lowerRecord(node)
     [] node.kind = "Union" -> lowerUnion(node)
     [] node.kind = "DiscriminatedUnion" -> lowerDiscriminatedUnion(node)
     [] node.kind = "Reference" -> lowerReference(node)
     [] node.kind = "Image" -> [type |-> "string"])
    @@ effectKeys(node)

-----------------------------------------------------------------------------
(* Collection wrapper *)

Draft7 == "http://json-schema.org/draft-07/schema#"

SchemaProperty == "$schema" :> [type |-> "string"]

definitionBodyRequiringSchema(loader, e) ==
  IF loader = "file"
  THEN [type |-> "object", properties |-> SchemaProperty, additionalProperties |-> e]
  ELSE [required |-> Append(IF "required" \in DOMAIN e THEN e.required ELSE <<>>, "$schema")]
         @@ [e EXCEPT !.properties = @ @@ SchemaProperty]

definitionBodyUniform(loader, e) == [e EXCEPT !.properties = @ @@ SchemaProperty]

definitionBodyRebuilt(loader, e) ==
  IF loader = "file"
  THEN [type |-> "object", properties |-> SchemaProperty, additionalProperties |-> e]
  ELSE [x \in DOMAIN e \ {"additionalProperties"} |->
          IF x = "properties" THEN e.properties @@ SchemaProperty ELSE e[x]]

definitionBody(loader, e) ==
  IF loader = "file"
  THEN [type |-> "object", properties |-> SchemaProperty, additionalProperties |-> e]
  ELSE [e EXCEPT !.properties = @ @@ SchemaProperty]

-----------------------------------------------------------------------------
(* Modules and identifiers: constants.ts and the module-level constants of *)
(* content.config.ts                                                       *)

LOCAL_PRIORITIES == <<"low", "medium", "high">>
ARTICLE_STATUSES == <<"draft", "published", "archived">>
DEFAULT_AUTHOR == "System"
CATEGORIES == <<"technology", "design", "business", "lifestyle">>

seoSchema ==
  zObject(<< Field("title", [zString EXCEPT !.min = Bound(5), !.max = Bound(120)], Plain),
             Field("description", [zString EXCEPT !.min = Bound(15), !.max = Bound(160)], Plain) >>)

ArrayValue(vs) == [lits |-> vs]
ScalarValue(v) == [scalar |-> v]
SchemaValue(n) == [node |-> n]

Declared ==
  [LOCAL_PRIORITIES |-> ArrayValue(LOCAL_PRIORITIES),
   ARTICLE_STATUSES |-> ArrayValue(ARTICLE_STATUSES),
   DEFAULT_AUTHOR |-> ScalarValue(JStr(DEFAULT_AUTHOR)),
   CATEGORIES |-> ArrayValue(CATEGORIES),
   seoSchema |-> SchemaValue(seoSchema)]

Idents == DOMAIN Declared

ConfigModule == "content.config"
ConstantsModule == "constants"

Const(v) == [kind |-> "const", value |-> v]
Import(m, n) == [kind |-> "import", from |-> m, name |-> n]
Computed == [kind |-> "computed"]

Unresolved == [unresolved |-> TRUE]

IsUnresolved(r) == "unresolved" \in DOMAIN r

(* Follow the binding of `id` in module `mod` through import statements to *)
(* the declaration; the result carries the declaring module.               *)
LookupOneHop(env, mod, id, seen) ==
  IF mod \notin DOMAIN env \/ id \notin DOMAIN env[mod]
  THEN Unresolved
  ELSE LET b == env[mod][id] IN
       IF b.kind = "const" THEN [value |-> b.value, module |-> mod]
       ELSE IF b.kind = "import" /\ b.from \in DOMAIN env /\ b.name \in DOMAIN env[b.from]
                 /\ env[b.from][b.name].kind = "const"
       THEN [value |-> env[b.from][b.name].value, module |-> b.from]
       ELSE Unresolved

RECURSIVE Lookup(_, _, _, _)
Lookup(env, mod, id, seen) ==
  IF mod \notin DOMAIN env \/ id \notin DOMAIN env[mod] \/ <<mod, id>> \in seen
  THEN Unresolved
  ELSE LET b == env[mod][id] IN
       IF b.kind = "const" THEN [value |-> b.value, module |-> mod]
       ELSE IF b.kind = "import" THEN Lookup(env, b.from, b.name, seen \cup {<<mod, id>>})
       ELSE Unresolved

LookupArray(env, mod, id) ==
  LET r == Lookup(env, mod, id, {}) IN
  IF ~IsUnresolved(r) /\ "lits" \in DOMAIN r.value THEN r ELSE Unresolved

LookupScalar(env, mod, id) ==
  LET r == Lookup(env, mod, id, {}) IN
  IF ~IsUnresolved(r) /\ "scalar" \in DOMAIN r.value THEN r ELSE Unresolved

LookupSchema(env, mod, id) ==
  LET r == Lookup(env, mod, id, {}) IN
  IF ~IsUnresolved(r) /\ "node" \in DOMAIN r.value THEN r ELSE Unresolved

IndexName(i) == <<"0", "1", "2", "3", "4", "5", "6", "7">>[i]

(* Identifier sites whose identifier has no concrete value, with the path  *)
(* of the field that holds them.  `open` is the set of fragments being     *)
(* expanded (a fragment that uses itself never resolves).                  *)
RECURSIVE ResolutionErrors(_, _, _, _, _)
ResolutionErrors(env, mod, node, path, open) ==
  CASE node.kind = "Ident" ->
         LET r == LookupSchema(env, mod, node.ident) IN
         IF IsUnresolved(r) \/ node.ident \in open
         THEN {[path |-> path, ident |-> node.ident]}
         ELSE ResolutionErrors(env, r.module, r.value.node, path, open \cup {node.ident})
    [] node.kind = "Enum" ->
         IF "ident" \in DOMAIN node.values /\ IsUnresolved(LookupArray(env, mod, node.values.ident))
         THEN {[path |-> path, ident |-> node.values.ident]}
         ELSE {}
    [] node.kind = "Array" -> ResolutionErrors(env, mod, node.element, Append(path, "*"), open)
    [] node.kind = "Record" -> ResolutionErrors(env, mod, node.value, Append(path, "*"), open)
    [] node.kind = "Tuple" ->
         UNION {ResolutionErrors(env, mod, node.elements[i], Append(path, IndexName(i)), open) :
                  i \in DOMAIN node.elements}
    [] node.kind \in {"Union", "DiscriminatedUnion"} ->
         UNION {ResolutionErrors(env, mod, node.variants[i], Append(path, IndexName(i)), open) :
                  i \in DOMAIN node.variants}
    [] node.kind = "Object" ->
         UNION {LET f == node.fields[i] IN
                ResolutionErrors(env, mod, f.node, Append(path, f.name), open)
                  \cup (IF "ident" \in DOMAIN f.mods.default
                          /\ IsUnresolved(LookupScalar(env, mod, f.mods.default.ident))
                        THEN {[path |-> Append(path, f.name), ident |-> f.mods.default.ident]}
                        ELSE {}) :
                  i \in DOMAIN node.fields}
    [] OTHER -> {}

ResolveDefault(env, mod, d) ==
  IF "ident" \in DOMAIN d /\ ~IsUnresolved(LookupScalar(env, mod, d.ident))
  THEN DefaultLit(LookupScalar(env, mod, d.ident).value.scalar)
  ELSE d

(* expansion that lets the use site's .optional() leak into the copy *)
RECURSIVE ResolveMerging(_, _, _, _)
ResolveMerging(env, mod, node, open) ==
  CASE node.kind = "Ident" ->
         LET r == LookupSchema(env, mod, node.ident) IN
         IF IsUnresolved(r) \/ node.ident \in open
         THEN node
         ELSE ResolveMerging(env, r.module, r.value.node, open \cup {node.ident})
    [] node.kind = "Enum" ->
         IF "ident" \in DOMAIN node.values /\ ~IsUnresolved(LookupArray(env, mod, node.values.ident))
         THEN [node EXCEPT !.values = [lits |-> LookupArray(env, mod, node.values.ident).value.lits]]
         ELSE node
    [] node.kind = "Array" -> [node EXCEPT !.element = ResolveMerging(env, mod, @, open)]
    [] node.kind = "Record" -> [node EXCEPT !.value = ResolveMerging(env, mod, @, open)]
    [] node.kind = "Tuple" ->
         [node EXCEPT !.elements = [i \in DOMAIN @ |-> ResolveMerging(env, mod, @[i], open)]]
    [] node.kind \in {"Union", "DiscriminatedUnion"} ->
         [node EXCEPT !.variants = [i \in DOMAIN @ |-> ResolveMerging(env, mod, @[i], open)]]
    [] node.kind = "Object" ->
         [node EXCEPT !.fields =
            [i \in DOMAIN node.fields |->
               LET f == node.fields[i] IN
               [name |-> f.name,
                node |-> IF f.node.kind = "Ident" /\ f.mods.optional
                         THEN AllOptional(ResolveMerging(env, mod, f.node, open))
                         ELSE ResolveMerging(env, mod, f.node, open),
                mods |-> [f.mods EXCEPT !.default = ResolveDefault(env, mod, f.mods.default)]]]]
    [] OTHER -> node

(* The tree with every resolvable identifier replaced by its value; a      *)
(* reused fragment is expanded at each use site.                           *)
RECURSIVE Resolve(_, _, _, _)
Resolve(env, mod, node, open) ==
  CASE node.kind = "Ident" ->
         LET r == LookupSchema(env, mod, node.ident) IN
         IF IsUnresolved(r) \/ node.ident \in open
         THEN node
         ELSE Resolve(env, r.module, r.value.node, open \cup {node.ident})
    [] node.kind = "Enum" ->
         IF "ident" \in DOMAIN node.values /\ ~IsUnresolved(LookupArray(env, mod, node.values.ident))
         THEN [node EXCEPT !.values = [lits |-> LookupArray(env, mod, node.values.ident).value.lits]]
         ELSE node
    [] node.kind = "Array" -> [node EXCEPT !.element = Resolve(env, mod, @, open)]
    [] node.kind = "Record" -> [node EXCEPT !.value = Resolve(env, mod, @, open)]
    [] node.kind = "Tuple" ->
         [node EXCEPT !.elements = [i \in DOMAIN @ |-> Resolve(env, mod, @[i], open)]]
    [] node.kind \in {"Union", "DiscriminatedUnion"} ->
         [node EXCEPT !.variants = [i \in DOMAIN @ |-> Resolve(env, mod, @[i], open)]]
    [] node.kind = "Object" ->
         [node EXCEPT !.fields =
            [i \in DOMAIN node.fields |->
               LET f == node.fields[i] IN
               [name |-> f.name,
                node |-> Resolve(env, mod, f.node, open),
                mods |-> [f.mods EXCEPT !.default = ResolveDefault(env, mod, f.mods.default)]]]]
    [] OTHER -> node

-----------------------------------------------------------------------------
(* The collections of the example sites *)

StrMinMax(a, b) == [zString EXCEPT !.min = Bound(a), !.max = Bound(b)]
Email == [zString EXCEPT !.format = "email"]
Url == [zString EXCEPT !.format = "url"]
IntNumber == zNumberOf(<<Integer>>)

Collection(l, s) == [loader |-> l, schema |-> s]

articles ==
  Collection("glob", zObject(<<
    Field("priority", zEnumOf("LOCAL_PRIORITIES"), Plain),
    Field("status", zEnumOf("ARTICLE_STATUSES"), Plain),
    Field("category", zEnumOf("CATEGORIES"), Plain),
    Field("seo", Use("seoSchema"), Plain),
    Field("author", zString, [Plain EXCEPT !.default = DefaultOf("DEFAULT_AUTHOR")]),
    Field("title", zString, Described("The main title of the article")),
    Field("content", zString, Described("The full article content in markdown")),
    Field("publishDate", zDate, Described("When this article was first published")),
    Field("tags",
          [zArray(zString) EXCEPT
             !.min = BoundMsg(1, "At least one tag is required"),
             !.effects = <<Refinement("All tags must be at least 2 characters long")>>],
          Plain) >>))

blog ==
  Collection("glob", zObject(<<
    Field("title", zString, Plain),
    Field("subtitle", zString, Optional),
    Field("authorFallback", zString, Default(JStr("Anonymous"))),
    Field("contactEmail", Email, Plain),
    Field("canonicalUrl", Url, Plain),
    Field("description", StrMinMax(10, 200), Plain),
    Field("publishDate", zDate, Plain),
    Field("updatedDate", zDate, Optional),
    Field("isDraft", zBoolean, Plain),
    Field("featured", zBoolean, Default(JBool(FALSE))),
    Field("readingTime", zNumber, Plain),
    Field("viewCount", zNumberOf(<<Integer, Positive>>), Optional),
    Field("status", zEnum(<<"draft", "published", "archived">>), Plain),
    Field("tags", zArray(zString), Plain),
    Field("categories", [zArray(zString) EXCEPT !.min = Bound(1), !.max = Bound(5)], Plain),
    Field("primaryAuthor", reference("authors"), Plain) >>))

authors ==
  Collection("glob", zObject(<<
    Field("name", zString, Plain),
    Field("bio", [zString EXCEPT !.min = Bound(50)], Plain),
    Field("email", Email, Plain),
    Field("website", Url, Optional),
    Field("avatar", image, Plain),
    Field("coverPhoto", image, Optional),
    Field("social", zObject(<< Field("twitter", zString, Optional),
                               Field("github", zString, Optional),
                               Field("linkedin", zString, Optional) >>), Plain),
    Field("links", zArray(zObject(<< Field("url", Url, Plain),
                                     Field("title", zString, Plain),
                                     Field("description", zString, Optional) >>)), Plain),
    Field("metadata", zRecord(zString), Plain),
    Field("postCount", zNumberOf(<<Integer, Min(0)>>), Default(JNum(0))) >>))

projects ==
  Collection("glob", zObject(<<
    Field("name", zString, Plain),
    Field("type", zLiteral(JStr("project")), Plain),
    Field("visibility", zUnion(<< zLiteral(JStr("public")), zLiteral(JStr("private")),
                                  zLiteral(JStr("internal")) >>), Plain),
    Field("coordinates", zTuple(<<zNumber, zNumber>>), Plain),
    Field("relatedPosts", zArray(reference("blog")), Plain),
    Field("deployment", zDiscriminatedUnion("platform", <<
        zObject(<< Field("platform", zLiteral(JStr("vercel")), Plain),
                   Field("projectId", zString, Plain) >>),
        zObject(<< Field("platform", zLiteral(JStr("netlify")), Plain),
                   Field("siteId", zString, Plain) >>),
        zObject(<< Field("platform", zLiteral(JStr("cloudflare")), Plain),
                   Field("accountId", zString, Plain) >> ) >>), Plain),
    Field("startDate", zCoerceDate, Plain),
    Field("slug", [zString EXCEPT !.effects = <<Transform>>], Plain),
    Field("config", zObject(<<
        Field("build", zObject(<< Field("command", zString, Plain),
                                  Field("outputDir", zString, Plain) >>), Plain),
        Field("env", zRecord(zString), Plain) >>), Plain) >>))

documentation ==
  Collection("file", zObject(<<
    Field("title", zString, Plain),
    Field("section", zString, Plain),
    Field("order", zNumber, Plain),
    Field("content", zObject(<< Field("summary", zString, Plain),
                                Field("details", zString, Plain),
                                Field("examples", zArray(zString), Optional) >>), Plain),
    Field("lastUpdated", zCoerceDate, Plain) >>))

schemaPatterns == [articles |-> articles]

comprehensiveSchemas ==
  [blog |-> blog, authors |-> authors, projects |-> projects, documentation |-> documentation]

-----------------------------------------------------------------------------
(* Where an identifier used by the config module is bound *)

MaxChain == 2

Barrels == <<"barrel1", "barrel2", "barrel3", "barrel4">>

Local == [at |-> "local"]
Imported == [at |-> "imported"]
Chained(h) == [at |-> "chained", hops |-> h]
Missing == [at |-> "missing"]
RuntimeComputed == [at |-> "computed"]
Cyclic == [at |-> "cyclic"]

ConfigBinding(pl, id) ==
  CASE pl[id].at = "local" -> Const(Declared[id])
    [] pl[id].at = "imported" -> Import(ConstantsModule, id)
    [] pl[id].at = "chained" -> Import(Barrels[pl[id].hops], id)
    [] pl[id].at = "missing" -> Import(ConstantsModule, id)
    [] pl[id].at = "computed" -> Computed
    [] pl[id].at = "cyclic" -> Import("cycleA", id)

Modules(pl) ==
  (ConfigModule :> [id \in Idents |-> ConfigBinding(pl, id)])
  @@ (ConstantsModule :>
        [id \in {i \in Idents : pl[i].at \in {"imported", "chained"}} |-> Const(Declared[id])])
  @@ [b \in {Barrels[k] : k \in 1..MaxChain} |->
        LET k == CHOOSE j \in 1..MaxChain : Barrels[j] = b IN
        [id \in {i \in Idents : pl[i].at = "chained" /\ pl[i].hops >= k} |->
           IF k = 1 THEN Import(ConstantsModule, id) ELSE Import(Barrels[k - 1], id)]]
  @@ ("cycleA" :> [id \in {i \in Idents : pl[i].at = "cyclic"} |-> Import("cycleB", id)])
  @@ ("cycleB" :> [id \in {i \in Idents : pl[i].at = "cyclic"} |-> Import("cycleA", id)])

(* the bindings as written in schema-patterns/src *)
AsWritten ==
  [LOCAL_PRIORITIES |-> Local, ARTICLE_STATUSES |-> Imported, DEFAULT_AUTHOR |-> Imported,
   CATEGORIES |-> Imported, seoSchema |-> Local]

-----------------------------------------------------------------------------
(* The generator: resolve, lower, wrap, one collection at a time *)

document(c, loader, e) ==
  IF loader = "file"
  THEN ("$ref" :> ("#/definitions/" \o c))
         @@ [definitions |-> c :> definitionBody(loader, e)]
  ELSE ("$ref" :> ("#/definitions/" \o c))
         @@ [definitions |-> c :> definitionBody(loader, e)]
         @@ ("$schema" :> Draft7)

Names == DOMAIN project.collections

-----------------------------------------------------------------------------
(* Inputs: the example sites and generated schemas *)

MaxFields == 2
MaxDepth == 2
MaxVariants == 2
MaxEffects == 1

LoaderKinds == {"glob", "file", "custom"}

FieldOrder == <<"title", "body", "author", "tags", "draft">>

ModCombos ==
  {[optional |-> o, default |-> d, description |-> NoDescription] :
     o \in BOOLEAN, d \in {NoDefault, DefaultLit(JStr("Anonymous"))}}

(* objects of n string fields under every combination of modifiers *)
ObjectsOf(n) ==
  {zObject([i \in 1..n |-> Field(FieldOrder[i], zString, ms[i])]) : ms \in [1..n -> ModCombos]}

ModifierObjects == UNION {ObjectsOf(n) : n \in 0..MaxFields}

Contexts == 1..7

Wrap(k, t) ==
  CASE k = 1 -> zObject(<<Field("inner", t, Plain)>>)
    [] k = 2 -> zObject(<<Field("inner", t, Optional)>>)
    [] k = 3 -> zArray(t)
    [] k = 4 -> zTuple(<<zNumber, t>>)
    [] k = 5 -> zRecord(t)
    [] k = 6 -> zUnion(<<zString, t>>)
    [] k = 7 -> IF t.kind = "Object"
                THEN zDiscriminatedUnion("kind",
                       << zObject(<<Field("kind", zLiteral(JStr("a")), Plain)>> \o t.fields) >>)
                ELSE zArray(zArray(t))

RECURSIVE Nestings(_, _)
Nestings(T, d) ==
  IF d = 0 THEN T ELSE T \cup Nestings({Wrap(k, t) : k \in Contexts, t \in T}, d - 1)

Root(t) == IF t.kind = "Object" THEN t ELSE zObject(<<Field("x", t, Plain)>>)

Site(cs) == [collections |-> cs, placement |-> AsWritten]

Placements ==
  {Local, Imported, Missing, RuntimeComputed, Cyclic} \cup {Chained(h) : h \in 1..MaxChain}

Bindings ==
  {[id \in Idents |-> p] : p \in Placements}
    \cup {[AsWritten EXCEPT ![id] = p] : id \in Idents, p \in Placements}

(* a second collection that reuses the fragment and the constants of       *)
(* schema-patterns next to the same values written inline                  *)
pages ==
  Collection("file", zObject(<<
    Field("seo", Use("seoSchema"), Optional),
    Field("social", Use("seoSchema"), Plain),
    Field("cards", zArray(Use("seoSchema")), Plain),
    Field("status", zEnum(<<"draft", "published", "archived">>), Plain),
    Field("state", zEnumOf("ARTICLE_STATUSES"), Plain),
    Field("author", zString, Default(JStr("System"))),
    Field("editor", zString, [Plain EXCEPT !.default = DefaultOf("DEFAULT_AUTHOR")]),
    Field("owner", reference("authors"), Plain) >>))

IdentSites ==
  {[collections |-> cs, placement |-> b] :
     cs \in {schemaPatterns, [articles |-> articles, pages |-> pages]}, b \in Bindings}

ExampleSites == {Site(schemaPatterns), Site(comprehensiveSchemas)}

(* every combination of modifiers one level down, and the objects of at    *)
(* most one field at every depth                                           *)
ModifierSites ==
  {Site([entries |-> Collection("glob", Root(t))]) :
     t \in Nestings(ModifierObjects, 1) \cup Nestings(ObjectsOf(0) \cup ObjectsOf(1), MaxDepth)}

LoaderSites ==
  {Site(c :> Collection(l, t)) :
     c \in {"articles", "docs"}, l \in LoaderKinds,
     t \in ModifierObjects \cup {blog.schema, documentation.schema}}

RECURSIVE SeqsUpTo(_, _)
SeqsUpTo(S, n) ==
  IF n = 0 THEN {<<>>}
  ELSE LET shorter == SeqsUpTo(S, n - 1) IN
       shorter \cup {Append(q, x) : q \in shorter, x \in S}

Strings ==
  {[zString EXCEPT !.min = a, !.max = b, !.format = f] :
     a \in {NoBound, Bound(1)}, b \in {NoBound, Bound(2)}, f \in {"none", "email", "url"}}

Reordered(q) == {[i \in DOMAIN q |-> q[p[i]]] : p \in Permutations(DOMAIN q)}

NumberChecks == <<Integer, Positive, Min(0), Max(5)>>

(* every selection of the checks of a number in every order of the calls *)
Numbers ==
  {zNumberOf(q) :
     q \in UNION {Reordered(SelectSeq(NumberChecks, LAMBDA ch : ch \in S)) :
                    S \in SUBSET {NumberChecks[i] : i \in DOMAIN NumberChecks}}}

Arrays ==
  {[zArray(zString) EXCEPT !.min = a, !.max = b] :
     a \in {NoBound, Bound(1), BoundMsg(1, "At least one tag is required")},
     b \in {NoBound, Bound(5), BoundMsg(5, "At most five tags are allowed")}}

UnionPool == {zLiteral(JStr("a")), zLiteral(JStr("b")), zLiteral(JNum(1)), zString, zBoolean}

Unions == {zUnion(vs) : vs \in SeqsUpTo(UnionPool, MaxVariants) \ {<<>>}}

Tuples == {zTuple(ts) : ts \in SeqsUpTo({zNumber, zString}, MaxVariants)}

Kinds ==
  Strings \cup Numbers \cup Arrays \cup Unions \cup Tuples
    \cup {zBoolean, zDate, zCoerceDate, zLiteral(JStr("project")), zLiteral(JNum(1)),
          zLiteral(JBool(TRUE)), zEnum(<<"draft", "published", "archived">>),
          reference("authors"), reference("blog"), image, zRecord(zString), zRecord(zNumber)}

EffectLists ==
  SeqsUpTo({Refinement("All tags must be at least 2 characters long"), Transform}, MaxEffects)

KindsWithEffects == {[t EXCEPT !.effects = es] : t \in Kinds, es \in EffectLists}

KindSites ==
  {Site([entries |-> Collection("glob", Root(t))]) : t \in Nestings(KindsWithEffects, 1)}

(* one collection that puts the boundary cases side by side *)
showcase ==
  Collection("glob", zObject(<<
    Field("tags", [zArray(zString) EXCEPT !.min = Bound(1),
                     !.effects = <<Refinement("All tags must be at least 2 characters long")>>], Plain),
    Field("slug", [zString EXCEPT !.effects = <<Transform>>], Plain),
    Field("visibility", zUnion(<<zLiteral(JStr("a")), zLiteral(JStr("b"))>>), Plain),
    Field("width", zUnion(<<zLiteral(JStr("a")), zString>>), Optional),
    Field("level", zUnion(<<zLiteral(JStr("a")), zLiteral(JNum(1))>>), Plain) >>))

ShowcaseSites == {Site([showcase |-> showcase])}

(* one object type at a plain, an optional and a defaulted field site *)
NestedSites ==
  {Site([profiles |-> Collection("glob", zObject(<<
      Field("social", t, Plain),
      Field("contact", t, Optional),
      Field("settings", t, Default(JObject(EmptyObj))) >>))]) : t \in ModifierObjects}

(* one node of every variant *)
Variants ==
  {zString, zNumber, zBoolean, zDate, zLiteral(JStr("project")),
   zEnum(<<"draft", "published", "archived">>), zArray(zString), zTuple(<<zNumber, zNumber>>),
   zObject(<<Field("title", zString, Plain)>>), zRecord(zString),
   zUnion(<<zString, zNumber>>), zUnion(<<zLiteral(JStr("a")), zLiteral(JStr("b"))>>),
   zDiscriminatedUnion("platform",
     << zObject(<<Field("platform", zLiteral(JStr("vercel")), Plain)>>),
        zObject(<<Field("platform", zLiteral(JStr("netlify")), Plain)>>) >>),
   reference("authors"), image}

(* each variant at a described and at an undescribed field site *)
DescribedSites ==
  {Site([entries |-> Collection("glob", zObject(<<
      Field("title", t, [m EXCEPT !.description = Describe("The main title of the article")]),
      Field("body", t, m) >>))]) : t \in Variants, m \in {Plain, Optional}}

Projects ==
  DescribedSites \cup ExampleSites \cup ModifierSites \cup LoaderSites \cup KindSites \cup ShowcaseSites \cup IdentSites
    \cup NestedSites

NotWalking ==
  /\ todo = [c \in Names |-> <<>>]
  /\ visited = [c \in Names |-> <<>>]
  /\ frags = [c \in Names |-> EmptyObj]

Declare(P) ==
  /\ project \in P
  /\ pc = [c \in Names |-> "declared"]
  /\ tree = [c \in Names |-> project.collections[c].schema]
  /\ entry = [c \in Names |-> EmptyObj]
  /\ doc = [c \in Names |-> EmptyObj]
  /\ err = [c \in Names |-> {}]
  /\ NotWalking

Init == Declare(Projects)

AbortSilently(c, errors) ==
  /\ err' = err
  /\ pc' = [pc EXCEPT ![c] = "failed"]
  /\ tree' = tree

(* a resolution failure is reported and ends the work on the collection *)
Abort(c, errors) ==
  /\ err' = [err EXCEPT ![c] = errors]
  /\ pc' = [pc EXCEPT ![c] = "failed"]
  /\ tree' = tree

ResolveCollection(c) ==
  /\ pc[c] = "declared"
  /\ LET errors == ResolutionErrors(Modules(project.placement), ConfigModule, tree[c], <<>>, {}) IN
     IF errors = {}
     THEN /\ tree' = [tree EXCEPT ![c] = Resolve(Modules(project.placement), ConfigModule, tree[c], {})]
          /\ pc' = [pc EXCEPT ![c] = "resolved"]
          /\ err' = err
     ELSE Abort(c, errors)
  /\ UNCHANGED <<project, entry, doc, walk>>

diagnosticsOnEffects(node) ==
  {[path |-> <<node.fields[i].name>>, ident |-> "refinement"] :
     i \in {j \in DOMAIN node.fields : node.fields[j].node.effects # <<>>}}

(* the diagnostics lowering records for a resolved tree: dropping a         *)
(* refinement or a transform is the expected behaviour and is not reported  *)
diagnostics(node) == {}

LowerCollection(c) ==
  /\ pc[c] = "resolved"
  /\ entry' = [entry EXCEPT ![c] = lowerNode(tree[c])]
  /\ err' = [err EXCEPT ![c] = @ \cup diagnostics(tree[c])]
  /\ pc' = [pc EXCEPT ![c] = "lowered"]
  /\ UNCHANGED <<project, tree, doc, walk>>

WrapCollectionShared(c) ==
  /\ pc[c] = "lowered"
  /\ \E d \in Names :
       /\ pc[d] = "lowered"
       /\ doc' = [doc EXCEPT ![c] = document(c, project.collections[c].loader, entry[d])]
  /\ pc' = [pc EXCEPT ![c] = "emitted"]
  /\ UNCHANGED <<project, tree, entry, err, walk>>

WrapCollection(c) ==
  /\ pc[c] = "lowered"
  /\ doc' = [doc EXCEPT ![c] = document(c, project.collections[c].loader, entry[c])]
  /\ pc' = [pc EXCEPT ![c] = "emitted"]
  /\ UNCHANGED <<project, tree, entry, err, walk>>

Next ==
  \/ \E c \in Names : ResolveCollection(c)
  \/ \E c \in Names : LowerCollection(c)
  \/ \E c \in Names : WrapCollection(c)

Spec == Init /\ [][Next]_vars

-----------------------------------------------------------------------------
(* Lowering one node at a time: the structural recursion of the lowering   *)
(* as a traversal, a node's fragment being put together from the fragments *)
(* of its children                                                         *)

Children(node) ==
  CASE node.kind = "Object" -> [i \in DOMAIN node.fields |-> node.fields[i].node]
    [] node.kind = "Array" -> <<node.element>>
    [] node.kind = "Tuple" -> node.elements
    [] node.kind = "Record" -> <<node.value>>
    [] node.kind \in {"Union", "DiscriminatedUnion"} -> node.variants
    [] OTHER -> <<>>

RECURSIVE NodeAt(_, _)
NodeAt(node, path) ==
  IF path = <<>> THEN node ELSE NodeAt(Children(node)[Head(path)], Tail(path))

ChildPaths(node, path) == {Append(path, i) : i \in DOMAIN Children(node)}

(* the fragment of a node from the fragments of its children *)
compose(node, kids) ==
  (CASE node.kind = "Object" ->
          [type |-> "object",
           properties |-> [n \in FieldNames(node.fields) |->
                             LET i == CHOOSE j \in DOMAIN node.fields : node.fields[j].name = n IN
                             kids[i] @@ descriptionKeys(node.fields[i].mods)
                                     @@ defaultKey(node.fields[i].mods)],
           additionalProperties |-> JFalse]
            @@ (IF required(node.fields) # <<>> THEN [required |-> required(node.fields)]
                ELSE EmptyObj)
     [] node.kind = "Array" ->
          [type |-> "array", items |-> kids[1]]
            @@ KeyIf(node.min, "minItems") @@ KeyIf(node.max, "maxItems")
            @@ errorMessage(MessageIf(node.min, "minItems") @@ MessageIf(node.max, "maxItems"))
     [] node.kind = "Tuple" ->
          [type |-> "array", minItems |-> Len(kids), maxItems |-> Len(kids),
           items |-> ItemsList(kids)]
     [] node.kind = "Record" -> [type |-> "object", additionalProperties |-> kids[1]]
     [] node.kind = "Union" ->
          IF UnionCollapses(node.variants)
          THEN [type |-> kids[1].type, enum |-> [i \in DOMAIN kids |-> kids[i].const]]
          ELSE [anyOf |-> kids]
     [] node.kind = "DiscriminatedUnion" -> [anyOf |-> kids]
     [] OTHER -> lowerNode(node))
    @@ effectKeys(node)

Top(c) == Head(todo[c])

Pending(c) == {p \in ChildPaths(NodeAt(tree[c], Top(c)), Top(c)) : p \notin DOMAIN frags[c]}

FirstPending(c) == CHOOSE p \in Pending(c) : \A q \in Pending(c) : p[Len(p)] <= q[Len(q)]

StartLowering(c) ==
  /\ pc[c] = "resolved"
  /\ pc' = [pc EXCEPT ![c] = "lowering"]
  /\ todo' = [todo EXCEPT ![c] = << <<>> >>]
  /\ UNCHANGED <<project, tree, entry, doc, err, visited, frags>>

DescendPreOrder(c) ==
  /\ pc[c] = "lowering"
  /\ todo[c] # <<>>
  /\ Pending(c) # {}
  /\ todo' = [todo EXCEPT ![c] = <<FirstPending(c)>> \o @]
  /\ visited' = [visited EXCEPT ![c] =
                   IF \E k \in DOMAIN @ : @[k] = Top(c) THEN @ ELSE Append(@, Top(c))]
  /\ UNCHANGED <<project, pc, tree, entry, doc, err, frags>>

(* go into the first child that has no fragment yet *)
Descend(c) ==
  /\ pc[c] = "lowering"
  /\ todo[c] # <<>>
  /\ Pending(c) # {}
  /\ todo' = [todo EXCEPT ![c] = <<FirstPending(c)>> \o @]
  /\ UNCHANGED <<project, pc, tree, entry, doc, err, visited, frags>>

(* every child has its fragment: lower the node itself *)
Finish(c) ==
  /\ pc[c] = "lowering"
  /\ todo[c] # <<>>
  /\ Pending(c) = {}
  /\ LET p == Top(c)
         node == NodeAt(tree[c], p)
         kids == [i \in DOMAIN Children(node) |-> frags[c][Append(p, i)]] IN
     /\ frags' = [frags EXCEPT ![c] = (p :> compose(node, kids)) @@ @]
     /\ visited' = [visited EXCEPT ![c] = Append(@, p)]
  /\ todo' = [todo EXCEPT ![c] = Tail(@)]
  /\ UNCHANGED <<project, pc, tree, entry, doc, err>>

EndLowering(c) ==
  /\ pc[c] = "lowering"
  /\ todo[c] = <<>>
  /\ entry' = [entry EXCEPT ![c] = frags[c][<<>>]]
  /\ err' = [err EXCEPT ![c] = @ \cup diagnostics(tree[c])]
  /\ pc' = [pc EXCEPT ![c] = "lowered"]
  /\ UNCHANGED <<project, tree, doc, walk>>

(* the example collections one by one, the two that share a fragment and   *)
(* constants together, and a collection that does not resolve              *)
WalkedProjects ==
  {Site(schemaPatterns), Site([showcase |-> showcase]), Site([articles |-> articles, pages |-> pages]),
   [collections |-> [articles |-> articles, pages |-> pages],
    placement |-> [AsWritten EXCEPT !["CATEGORIES"] = Missing]]}
    \cup {Site(n :> comprehensiveSchemas[n]) : n \in DOMAIN comprehensiveSchemas}
    \cup DescribedSites

WalkInit == Declare(WalkedProjects)

WalkNext ==
  \/ \E c \in Names : ResolveCollection(c)
  \/ \E c \in Names : StartLowering(c)
  \/ \E c \in Names : Descend(c)
  \/ \E c \in Names : Finish(c)
  \/ \E c \in Names : EndLowering(c)
  \/ \E c \in Names : WrapCollection(c)

(* the generator runs until no step is left *)
WalkSpec == WalkInit /\ [][WalkNext]_vars /\ WF_vars(WalkNext)

-----------------------------------------------------------------------------
(* Reading the output back *)

(* every node of a resolved tree with the modifiers of its field site and  *)
(* the fragment emitted for it                                             *)
RECURSIVE Emitted(_, _, _)
Emitted(node, m, frag) ==
  {[node |-> node, mods |-> m, frag |-> frag]} \cup
  (CASE node.kind = "Object" ->
          UNION {Emitted(node.fields[i].node, node.fields[i].mods,
                         frag.properties[node.fields[i].name]) : i \in DOMAIN node.fields}
     [] node.kind = "Array" -> Emitted(node.element, Plain, frag.items)
     [] node.kind = "Tuple" ->
          UNION {Emitted(node.elements[i], Plain, frag.items.list[i]) : i \in DOMAIN node.elements}
     [] node.kind = "Record" -> Emitted(node.value, Plain, frag.additionalProperties)
     [] node.kind \in {"Union", "DiscriminatedUnion"} ->
          IF "anyOf" \in DOMAIN frag
          THEN UNION {Emitted(node.variants[i], Plain, frag.anyOf[i]) : i \in DOMAIN node.variants}
          ELSE {}
     [] OTHER -> {})

Without(f, k) == [x \in DOMAIN f \ {k} |-> f[x]]

Lowered(c) == pc[c] \in {"lowered", "emitted"}

IsFile(c) == project.collections[c].loader = "file"

Body(c) == doc[c].definitions[c]

(* the entry schema as it stands in the emitted document *)
EntryInDoc(c) ==
  IF IsFile(c) THEN Body(c).additionalProperties
  ELSE [Body(c) EXCEPT !.properties = Without(@, "$schema")]

(* all sites of collection c, read from the lowered entry and, once the    *)
(* document is written, from the document                                  *)
SitesOf(c) ==
  Emitted(tree[c], Plain, entry[c])
    \cup (IF pc[c] = "emitted" THEN Emitted(tree[c], Plain, EntryInDoc(c)) ELSE {})

RequiredOf(frag) == IF "required" \in DOMAIN frag THEN frag.required ELSE <<>>

PositionOf(fs, n) == CHOOSE i \in DOMAIN fs : fs[i].name = n

RequiredAsDeclared(fs, req) ==
  /\ \A i \in DOMAIN fs :
       (\E j \in DOMAIN req : req[j] = fs[i].name)
         <=> (fs[i].mods.optional = FALSE /\ ~fs[i].mods.default.has)
  /\ \A j \in DOMAIN req : \E i \in DOMAIN fs : fs[i].name = req[j]
  /\ \A j, k \in DOMAIN req : j < k => PositionOf(fs, req[j]) < PositionOf(fs, req[k])

(* C1: at every object node, at every depth, `required` lists exactly the  *)
(* fields with optional=false and no default, in declaration order.        *)
C1_RequiredExact ==
  \A c \in Names : Lowered(c) =>
    \A s \in SitesOf(c) :
      s.node.kind = "Object" => RequiredAsDeclared(s.node.fields, RequiredOf(s.frag))

(* a nested object with a defaulted non-optional field next to a required  *)
(* one has been written to a document                                      *)
C1_Witness ==
  \E c \in Names :
    /\ pc[c] = "emitted"
    /\ \E s \in SitesOf(c) :
         /\ s.node.kind = "Object"
         /\ s.node # tree[c]
         /\ \E i \in DOMAIN s.node.fields :
              s.node.fields[i].mods.default.has /\ ~s.node.fields[i].mods.optional
         /\ RequiredOf(s.frag) # <<>>

RECURSIVE StripEffects(_)
StripEffects(node) ==
  LET bare == [node EXCEPT !.effects = <<>>] IN
  CASE node.kind = "Object" ->
         [bare EXCEPT !.fields =
            [i \in DOMAIN node.fields |->
               [node.fields[i] EXCEPT !.node = StripEffects(node.fields[i].node)]]]
    [] node.kind = "Array" -> [bare EXCEPT !.element = StripEffects(node.element)]
    [] node.kind = "Record" -> [bare EXCEPT !.value = StripEffects(node.value)]
    [] node.kind = "Tuple" ->
         [bare EXCEPT !.elements = [i \in DOMAIN node.elements |-> StripEffects(node.elements[i])]]
    [] node.kind \in {"Union", "DiscriminatedUnion"} ->
         [bare EXCEPT !.variants = [i \in DOMAIN node.variants |-> StripEffects(node.variants[i])]]
    [] OTHER -> bare

HasEffects(node) == node.effects # <<>>

ModifierKeys == {"description", "markdownDescription", "default"}

(* C6: refinements and transforms leave no trace: every fragment equals    *)
(* the lowering of its node with them removed, a node with only effects is *)
(* the bare shape, and declared bounds next to a refinement are emitted.   *)
C6_EffectsDropped ==
  \A c \in Names : Lowered(c) =>
    \A s \in SitesOf(c) :
      /\ s.frag = lower(StripEffects(s.node), s.mods)
      /\ HasEffects(s.node) =>
           /\ [s.node EXCEPT !.effects = <<>>] = zString => Without(s.frag, "default") = [type |-> "string"]
           /\ [s.node EXCEPT !.effects = <<>>] = zNumber => s.frag = [type |-> "number"]
           /\ [s.node EXCEPT !.effects = <<>>] = zBoolean => s.frag = [type |-> "boolean"]
           /\ [s.node EXCEPT !.effects = <<>>] = image => s.frag = [type |-> "string"]
           /\ (s.node.kind = "Array" /\ s.node.min.set) =>
                ("minItems" \in DOMAIN s.frag /\ s.frag.minItems = s.node.min.n)
           /\ (s.node.kind = "String" /\ s.node.min.set) =>
                ("minLength" \in DOMAIN s.frag /\ s.frag.minLength = s.node.min.n)

(* an array with a declared minimum and a refinement, and a string with    *)
(* only a transform, have been lowered                                     *)
C6_Witness ==
  \E c \in Names :
    /\ pc[c] = "emitted"
    /\ \E s, t \in SitesOf(c) :
         /\ s.node.kind = "Array" /\ s.node.min.set /\ HasEffects(s.node)
         /\ t.node = [zString EXCEPT !.effects = <<Transform>>]

DateMembers ==
  << [type |-> "string", format |-> "date-time"],
     [type |-> "string", format |-> "date"],
     [type |-> "integer", format |-> "unix-time"] >>

(* C7: every Date node, strict or coercing, lowers to the same three       *)
(* member anyOf in the fixed order.                                        *)
C7_DateFixed ==
  \A c \in Names : Lowered(c) =>
    \A s \in SitesOf(c) :
      s.node.kind = "Date" =>
        /\ DOMAIN s.frag \ ModifierKeys = {"anyOf"}
        /\ s.frag.anyOf = DateMembers
        /\ s.frag = lower([s.node EXCEPT !.coerce = ~s.node.coerce], s.mods)

(* one document holds a strict and another a coercing date                 *)
C7_Witness ==
  /\ \E c \in Names : pc[c] = "emitted" /\ \E s \in SitesOf(c) : s.node.kind = "Date" /\ s.node.coerce
  /\ \E c \in Names : pc[c] = "emitted" /\ \E s \in SitesOf(c) : s.node.kind = "Date" /\ ~s.node.coerce

LiteralsOfOneType(vs) ==
  /\ \A i \in DOMAIN vs : vs[i].kind = "Literal"
  /\ \A i, j \in DOMAIN vs :
       ("str" \in DOMAIN vs[i].value <=> "str" \in DOMAIN vs[j].value)
         /\ ("num" \in DOMAIN vs[i].value <=> "num" \in DOMAIN vs[j].value)

(* C8: a union of literals of one primitive type is {type, enum} without   *)
(* anyOf; any other union is the anyOf of its lowered variants, no enum.   *)
C8_UnionShape ==
  \A c \in Names : Lowered(c) =>
    \A s \in SitesOf(c) :
      s.node.kind = "Union" =>
        LET vs == s.node.variants IN
        IF LiteralsOfOneType(vs)
        THEN /\ "anyOf" \notin DOMAIN s.frag
             /\ s.frag.type = (IF "str" \in DOMAIN vs[1].value THEN "string"
                               ELSE IF "num" \in DOMAIN vs[1].value THEN "number" ELSE "boolean")
             /\ s.frag.enum = [i \in DOMAIN vs |-> vs[i].value]
        ELSE /\ "enum" \notin DOMAIN s.frag
             /\ "anyOf" \in DOMAIN s.frag
             /\ s.frag.anyOf = [i \in DOMAIN vs |-> lowerNode(vs[i])]

(* a two-literal string union, a literal plus a non-literal, and literals  *)
(* of two primitive types have each been lowered                           *)
C8_Witness ==
  /\ \E c \in Names : Lowered(c) /\ \E s \in SitesOf(c) :
       s.node.kind = "Union" /\ Len(s.node.variants) >= 2 /\ "enum" \in DOMAIN s.frag
  /\ \E c \in Names : Lowered(c) /\ \E s \in SitesOf(c) :
       /\ s.node.kind = "Union" /\ Len(s.node.variants) >= 2
       /\ s.node.variants[1].kind = "Literal" /\ s.node.variants[2].kind # "Literal"
       /\ "anyOf" \in DOMAIN s.frag
  /\ \E c \in Names : Lowered(c) /\ \E s \in SitesOf(c) :
       /\ s.node.kind = "Union" /\ Len(s.node.variants) >= 2
       /\ s.node.variants[1] = zLiteral(JStr("a")) /\ s.node.variants[2] = zLiteral(JNum(1))
       /\ "anyOf" \in DOMAIN s.frag

Emitting(c) == pc[c] = "emitted"

Loader(c) == project.collections[c].loader

Declaration(c) == project.collections[c].schema

(* C2: the document of every collection, whatever its loader, has exactly  *)
(* the keys $ref, definitions and $schema, with the single definition      *)
(* named after the collection.                                             *)
C2_Envelope ==
  \A c \in Names : Emitting(c) =>
    /\ DOMAIN doc[c] = {"$ref", "definitions", "$schema"}
    /\ doc[c]["$ref"] = "#/definitions/" \o c
    /\ DOMAIN doc[c].definitions = {c}
    /\ doc[c]["$schema"] = Draft7

(* C3: under a glob or custom loader the definition body is the lowered    *)
(* entry schema plus the property $schema: {type: string}, which is not    *)
(* required.                                                               *)
C3_SchemaPropertyInjected ==
  \A c \in Names : (Emitting(c) /\ Loader(c) \in {"glob", "custom"}) =>
    /\ "$schema" \in DOMAIN Body(c).properties
    /\ Body(c).properties["$schema"] = [type |-> "string"]
    /\ \A j \in DOMAIN RequiredOf(Body(c)) : RequiredOf(Body(c))[j] # "$schema"
    /\ "$schema" \notin DOMAIN lowerNode(tree[c]).properties
    /\ [Body(c) EXCEPT !.properties = Without(@, "$schema")] = lowerNode(tree[c])

(* a custom-loader collection with required fields has been written        *)
C3_Witness ==
  \E c \in Names :
    Emitting(c) /\ Loader(c) = "custom" /\ Len(RequiredOf(Body(c))) >= 2

(* C4: under the file loader the definition body is an object whose only   *)
(* property is $schema and whose additionalProperties is the closed entry  *)
(* schema; under the other loaders the entry's fields are the body's own   *)
(* properties.                                                             *)
C4_FileNestsEntry ==
  \A c \in Names : Emitting(c) =>
    IF Loader(c) = "file"
    THEN /\ DOMAIN Body(c) = {"type", "properties", "additionalProperties"}
         /\ Body(c).type = "object"
         /\ Body(c).properties = [k \in {"$schema"} |-> [type |-> "string"]]
         /\ Body(c).additionalProperties = lowerNode(tree[c])
         /\ Body(c).additionalProperties.additionalProperties = JFalse
         /\ "$schema" \notin DOMAIN Body(c).additionalProperties.properties
         /\ RequiredAsDeclared(tree[c].fields, RequiredOf(Body(c).additionalProperties))
         /\ \A i \in DOMAIN tree[c].fields : tree[c].fields[i].name \notin DOMAIN Body(c).properties
    ELSE \A i \in DOMAIN tree[c].fields : tree[c].fields[i].name \in DOMAIN Body(c).properties

(* a file-loader collection with required fields has been written          *)
C4_Witness ==
  \E c \in Names :
    /\ Emitting(c) /\ Loader(c) = "file"
    /\ Len(tree[c].fields) >= 2
    /\ RequiredOf(Body(c).additionalProperties) # <<>>

(* the fragment-valued keys of a fragment *)
RECURSIVE NoRef(_)
NoRef(frag) ==
  /\ "$ref" \notin DOMAIN frag
  /\ "properties" \in DOMAIN frag => \A n \in DOMAIN frag.properties : NoRef(frag.properties[n])
  /\ "items" \in DOMAIN frag =>
       IF "list" \in DOMAIN frag.items
       THEN \A i \in DOMAIN frag.items.list : NoRef(frag.items.list[i])
       ELSE NoRef(frag.items)
  /\ "additionalProperties" \in DOMAIN frag =>
       ("bool" \in DOMAIN frag.additionalProperties \/ NoRef(frag.additionalProperties))
  /\ "anyOf" \in DOMAIN frag => \A i \in DOMAIN frag.anyOf : NoRef(frag.anyOf[i])

(* the sites of a declaration that name a reusable fragment, with the      *)
(* fragment emitted there                                                  *)
RECURSIVE Uses(_, _, _, _)
Uses(node, m, frag, path) ==
  CASE node.kind = "Ident" -> {[ident |-> node.ident, mods |-> m, frag |-> frag, path |-> path]}
    [] node.kind = "Object" ->
         UNION {Uses(node.fields[i].node, node.fields[i].mods,
                     frag.properties[node.fields[i].name], Append(path, node.fields[i].name)) :
                  i \in DOMAIN node.fields}
    [] node.kind = "Array" -> Uses(node.element, Plain, frag.items, Append(path, "*"))
    [] node.kind = "Tuple" ->
         UNION {Uses(node.elements[i], Plain, frag.items.list[i], Append(path, IndexName(i))) :
                  i \in DOMAIN node.elements}
    [] node.kind = "Record" -> Uses(node.value, Plain, frag.additionalProperties, Append(path, "*"))
    [] node.kind \in {"Union", "DiscriminatedUnion"} ->
         IF "anyOf" \in DOMAIN frag
         THEN UNION {Uses(node.variants[i], Plain, frag.anyOf[i], Append(path, IndexName(i))) :
                       i \in DOMAIN node.variants}
         ELSE {}
    [] OTHER -> {}

UsesIn(c) == Uses(Declaration(c), Plain, EntryInDoc(c), <<>>)

(* C5: every use of one reusable fragment, in one collection or several,   *)
(* is emitted as its own expanded copy, all copies deeply equal, and no    *)
(* $ref occurs below the top level of any document.                        *)
C5_FragmentsInlined ==
  /\ \A c \in Names : Emitting(c) => NoRef(Body(c))
  /\ \A c, d \in Names : (Emitting(c) /\ Emitting(d)) =>
       \A u \in UsesIn(c), v \in UsesIn(d) :
         (u.ident = v.ident /\ u.mods.description = v.mods.description
            /\ u.mods.default = v.mods.default)
           => (u.frag = v.frag /\ "type" \in DOMAIN u.frag /\ u.frag.type = "object")

(* two documents are written, one using the fragment three times, at an    *)
(* optional field, a plain field and inside an array, the other once       *)
C5_Witness ==
  \E c, d \in Names :
    /\ c # d /\ Emitting(c) /\ Emitting(d)
    /\ Cardinality(UsesIn(c)) >= 3
    /\ UsesIn(d) # {}
    /\ \E u, v \in UsesIn(c) : u.mods.optional /\ ~v.mods.optional

(* the declaration as it reads with every identifier replaced by the value *)
(* it is declared with, written inline                                     *)
RECURSIVE Inlined(_)
Inlined(node) ==
  CASE node.kind = "Ident" -> Inlined(Declared[node.ident].node)
    [] node.kind = "Enum" ->
         IF "ident" \in DOMAIN node.values
         THEN zEnum(Declared[node.values.ident].lits)
         ELSE node
    [] node.kind = "Array" -> [node EXCEPT !.element = Inlined(node.element)]
    [] node.kind = "Record" -> [node EXCEPT !.value = Inlined(node.value)]
    [] node.kind = "Tuple" ->
         [node EXCEPT !.elements = [i \in DOMAIN node.elements |-> Inlined(node.elements[i])]]
    [] node.kind \in {"Union", "DiscriminatedUnion"} ->
         [node EXCEPT !.variants = [i \in DOMAIN node.variants |-> Inlined(node.variants[i])]]
    [] node.kind = "Object" ->
         [node EXCEPT !.fields =
            [i \in DOMAIN node.fields |->
               LET f == node.fields[i] IN
               Field(f.name, Inlined(f.node),
                     IF "ident" \in DOMAIN f.mods.default
                     THEN [f.mods EXCEPT !.default = DefaultLit(Declared[f.mods.default.ident].scalar)]
                     ELSE f.mods)]]
    [] OTHER -> node

(* the identifier sites of a declaration with the path of their field *)
RECURSIVE IdentifierSites(_, _)
IdentifierSites(node, path) ==
  CASE node.kind = "Ident" -> {[path |-> path, ident |-> node.ident]}
    [] node.kind = "Enum" ->
         IF "ident" \in DOMAIN node.values
         THEN {[path |-> path, ident |-> node.values.ident]}
         ELSE {}
    [] node.kind = "Array" -> IdentifierSites(node.element, Append(path, "*"))
    [] node.kind = "Record" -> IdentifierSites(node.value, Append(path, "*"))
    [] node.kind = "Tuple" ->
         UNION {IdentifierSites(node.elements[i], Append(path, IndexName(i))) :
                  i \in DOMAIN node.elements}
    [] node.kind \in {"Union", "DiscriminatedUnion"} ->
         UNION {IdentifierSites(node.variants[i], Append(path, IndexName(i))) :
                  i \in DOMAIN node.variants}
    [] node.kind = "Object" ->
         UNION {LET f == node.fields[i] IN
                IdentifierSites(f.node, Append(path, f.name))
                  \cup (IF "ident" \in DOMAIN f.mods.default
                        THEN {[path |-> Append(path, f.name), ident |-> f.mods.default.ident]}
                        ELSE {}) :
                  i \in DOMAIN node.fields}
    [] OTHER -> {}

HasConcreteValue(id) == project.placement[id].at \in {"local", "imported", "chained"}

UnresolvedSites(c) ==
  {s \in IdentifierSites(Declaration(c), <<>>) : ~HasConcreteValue(s.ident)}

Resolved(c) == pc[c] \in {"resolved", "lowered", "emitted"}

(* C9: wherever its identifiers are bound (same module, imported, imported *)
(* through re-exports) a collection lowers to the document of the same     *)
(* declaration with the values written inline; enum lists and defaults are *)
(* the declared values verbatim; no identifier reaches lowering.           *)
C9_BindingSiteInvisible ==
  \A c \in Names :
    /\ UnresolvedSites(c) = {} => pc[c] # "failed"
    /\ Resolved(c) =>
         /\ IdentifierSites(tree[c], <<>>) = {}
         /\ tree[c] = Inlined(Declaration(c))
    /\ Lowered(c) => entry[c] = lowerNode(Inlined(Declaration(c)))
    /\ Emitting(c) =>
         /\ doc[c] = document(c, Loader(c), lowerNode(Inlined(Declaration(c))))
         /\ \A i \in DOMAIN Declaration(c).fields :
              LET f == Declaration(c).fields[i]
                  frag == EntryInDoc(c).properties[f.name] IN
              /\ (f.node.kind = "Enum" /\ "ident" \in DOMAIN f.node.values) =>
                   /\ Len(frag.enum) = Len(Declared[f.node.values.ident].lits)
                   /\ \A k \in DOMAIN frag.enum :
                        frag.enum[k] = JStr(Declared[f.node.values.ident].lits[k])
              /\ "ident" \in DOMAIN f.mods.default =>
                   frag.default = Declared[f.mods.default.ident].scalar
    /\ (Emitting(c) /\ c = "pages") =>
         /\ EntryInDoc(c).properties.state = EntryInDoc(c).properties.status
         /\ EntryInDoc(c).properties.editor = EntryInDoc(c).properties.author

(* a document is written whose enum list and default came through a chain  *)
(* of two re-exporting modules                                             *)
C9_Witness ==
  \E c \in Names :
    /\ Emitting(c)
    /\ c = "pages"
    /\ project.placement["ARTICLE_STATUSES"] = Chained(2)
    /\ project.placement["DEFAULT_AUTHOR"] = Chained(2)
    /\ EntryInDoc(c).properties.state.enum = Strs(<<"draft", "published", "archived">>)
    /\ EntryInDoc(c).properties.editor.default = JStr("System")

(* C10: a collection with an identifier that has no concrete value ends in *)
(* an error naming the field path and the identifier; its tree is left as  *)
(* declared and nothing is lowered or written for it.                      *)
C10_UnresolvedIsFatal ==
  \A c \in Names :
    UnresolvedSites(c) # {} =>
      /\ pc[c] \in {"declared", "failed"}
      /\ tree[c] = Declaration(c)
      /\ entry[c] = EmptyObj
      /\ doc[c] = EmptyObj
      /\ pc[c] = "failed" =>
           /\ err[c] # {}
           /\ err[c] \subseteq UnresolvedSites(c)

(* resolution has failed on a collection whose enum names a constant that  *)
(* no module exports, while the other collection has been written          *)
C10_Witness ==
  \E c, d \in Names :
    /\ pc[c] = "failed"
    /\ err[c] = {[path |-> <<"category">>, ident |-> "CATEGORIES"]}
    /\ project.placement["CATEGORIES"] = Missing
    /\ c # d /\ Emitting(d)

AnyEffects(node) == node # StripEffects(node)

(* C11: lowering a tree that carries refinements or transforms never fails *)
(* and records no diagnostic: the diagnostics are those of the same tree   *)
(* without them, none for a resolved tree, and a collection fails only on  *)
(* an identifier without a value.                                          *)
C11_RefinementsSilent ==
  \A c \in Names :
    /\ Resolved(c) =>
         /\ diagnostics(tree[c]) = diagnostics(StripEffects(tree[c]))
         /\ diagnostics(tree[c]) = {}
    /\ Lowered(c) => err[c] = {}
    /\ pc[c] = "failed" => UnresolvedSites(c) # {}
    /\ (Resolved(c) /\ AnyEffects(tree[c])) =>
         (Lowered(c) => entry[c] = lowerNode(StripEffects(tree[c])))

(* a collection whose array field carries a refinement with a message has  *)
(* been lowered and written with an empty diagnostics set                  *)
C11_Witness ==
  \E c \in Names :
    /\ Emitting(c)
    /\ err[c] = {}
    /\ \E i \in DOMAIN tree[c].fields :
         /\ tree[c].fields[i].node.kind = "Array"
         /\ \E k \in DOMAIN tree[c].fields[i].node.effects :
              tree[c].fields[i].node.effects[k].type = "refinement"

(* C12: the fragment of every object node, wherever it stands, is closed   *)
(* by additionalProperties: false; the fragment of every record node is    *)
(* exactly {type: "object", additionalProperties: lower(V)}, without       *)
(* `properties` or `required`, and is never closed.                        *)
C12_ObjectsClosedRecordsOpen ==
  \A c \in Names : Lowered(c) =>
    \A s \in SitesOf(c) :
      /\ s.node.kind = "Object" =>
           /\ "additionalProperties" \in DOMAIN s.frag
           /\ s.frag.additionalProperties = JFalse
           /\ s.frag.type = "object"
           /\ DOMAIN s.frag.properties = FieldNames(s.node.fields)
      /\ s.node.kind = "Record" =>
           /\ DOMAIN s.frag \ ModifierKeys = {"type", "additionalProperties"}
           /\ s.frag.type = "object"
           /\ s.frag.additionalProperties = lowerNode(s.node.value)
           /\ s.frag.additionalProperties # JFalse

(* a record whose values are objects with fields, and an object below the  *)
(* root, have been written to a document                                   *)
C12_Witness ==
  \E c \in Names :
    /\ Emitting(c)
    /\ \E s \in SitesOf(c) :
         /\ s.node.kind = "Record"
         /\ s.node.value.kind = "Object"
         /\ s.node.value.fields # <<>>
         /\ s.frag.additionalProperties.additionalProperties = JFalse

WithoutKeys(f, K) == [x \in DOMAIN f \ K |-> f[x]]

InRequired(frag, n) == \E j \in DOMAIN RequiredOf(frag) : RequiredOf(frag)[j] = n

FieldSiteModifiers == {Plain, Optional, Default(JObject(EmptyObj))}

(* C13: the fragment of a nested object, its own `required` included, is   *)
(* the same at a plain, an optional and a defaulted field site; the site's *)
(* optionality decides only whether the field's name is in the parent's    *)
(* `required`, also when every field of the nested object is optional.     *)
C13_OptionalityStaysAtSite ==
  \A c \in Names : Lowered(c) =>
    \A s \in SitesOf(c) :
      s.node.kind = "Object" =>
        \A i \in DOMAIN s.node.fields :
          LET f == s.node.fields[i]
              child == s.frag.properties[f.name] IN
          f.node.kind = "Object" =>
            /\ WithoutKeys(child, ModifierKeys) = lowerNode(f.node)
            /\ RequiredOf(child) = required(f.node.fields)
            /\ \A m \in FieldSiteModifiers :
                 /\ RequiredOf(lower(f.node, m)) = RequiredOf(child)
                 /\ WithoutKeys(lower(f.node, m), ModifierKeys) = WithoutKeys(child, ModifierKeys)
            /\ InRequired(s.frag, f.name) <=> (~f.mods.optional /\ ~f.mods.default.has)

(* one document holds the same object type, all of whose fields are        *)
(* optional, at a plain, an optional and a defaulted site; only the plain  *)
(* site's name is in the parent's `required`                               *)
C13_Witness ==
  \E c \in Names :
    /\ Emitting(c)
    /\ Len(tree[c].fields) = 3
    /\ tree[c].fields[1].node.kind = "Object"
    /\ tree[c].fields[1].node = tree[c].fields[2].node
    /\ tree[c].fields[1].node = tree[c].fields[3].node
    /\ tree[c].fields[1].mods = Plain
    /\ tree[c].fields[2].mods.optional /\ tree[c].fields[3].mods.default.has
    /\ Len(tree[c].fields[1].node.fields) = 2
    /\ \A i \in 1..2 : tree[c].fields[1].node.fields[i].mods = Optional
    /\ RequiredOf(EntryInDoc(c)) = <<tree[c].fields[1].name>>
    /\ "required" \notin DOMAIN EntryInDoc(c).properties[tree[c].fields[1].name]

HasCheck(node, k) == \E i \in DOMAIN node.checks : node.checks[i].check = k

CheckValue(node, k) == node.checks[CHOOSE i \in DOMAIN node.checks : node.checks[i].check = k].value

(* C14: the fragment of a number depends on which modifiers were applied,  *)
(* not on their order: every reordering of its calls lowers to the same    *)
(* fragment, with type "integer" iff int() was called, exclusiveMinimum 0  *)
(* iff positive() was, and minimum/maximum the declared bounds.            *)
C14_NumberOrderFree ==
  \A c \in Names : Lowered(c) =>
    \A s \in SitesOf(c) :
      s.node.kind = "Number" =>
        LET frag == WithoutKeys(s.frag, ModifierKeys) IN
        /\ \A q \in Reordered(s.node.checks) : lowerNode([s.node EXCEPT !.checks = q]) = frag
        /\ frag.type = (IF HasCheck(s.node, "int") THEN "integer" ELSE "number")
        /\ "exclusiveMinimum" \in DOMAIN frag <=> HasCheck(s.node, "positive")
        /\ "exclusiveMinimum" \in DOMAIN frag => frag.exclusiveMinimum = 0
        /\ "minimum" \in DOMAIN frag <=> HasCheck(s.node, "min")
        /\ "minimum" \in DOMAIN frag => frag.minimum = CheckValue(s.node, "min")
        /\ "maximum" \in DOMAIN frag <=> HasCheck(s.node, "max")
        /\ "maximum" \in DOMAIN frag => frag.maximum = CheckValue(s.node, "max")
        /\ DOMAIN frag \subseteq {"type", "exclusiveMinimum", "minimum", "maximum"}

(* a number declared as positive().max(5).int(), with int() called last,   *)
(* has been written as an integer that kept both other keywords            *)
C14_Witness ==
  \E c \in Names :
    /\ Emitting(c)
    /\ \E s \in SitesOf(c) :
         /\ s.node.kind = "Number"
         /\ s.node.checks = <<Positive, Max(5), Integer>>
         /\ s.frag = [type |-> "integer", exclusiveMinimum |-> 0, maximum |-> 5]

ReferenceShape ==
  [anyOf |->
     << [type |-> "string"],
        [type |-> "object",
         properties |-> [id |-> [type |-> "string"], collection |-> [type |-> "string"]],
         required |-> <<"id", "collection">>,
         additionalProperties |-> JFalse],
        [type |-> "object",
         properties |-> [slug |-> [type |-> "string"], collection |-> [type |-> "string"]],
         required |-> <<"slug", "collection">>,
         additionalProperties |-> JFalse] >>]

ReferenceSites(c) == {s \in SitesOf(c) : s.node.kind = "Reference"}

(* C15: every reference lowers to the same three-branch anyOf (a string,   *)
(* a closed {id, collection} object, a closed {slug, collection} object)   *)
(* whatever collection it targets, so two references to different          *)
(* collections are indistinguishable in the output; a reference at a field *)
(* that is neither optional nor defaulted stays in the parent's required.  *)
C15_ReferenceHidesTarget ==
  \A c \in Names : Lowered(c) =>
    /\ \A s \in ReferenceSites(c) :
         /\ WithoutKeys(s.frag, ModifierKeys) = ReferenceShape
         /\ \A d \in {"authors", "blog", "projects", "collection", "id"} :
              lowerNode(reference(d)) = lowerNode(s.node)
    /\ \A d \in Names : Lowered(d) =>
         \A s \in ReferenceSites(c), t \in ReferenceSites(d) :
           WithoutKeys(s.frag, ModifierKeys) = WithoutKeys(t.frag, ModifierKeys)
    /\ \A s \in SitesOf(c) :
         s.node.kind = "Object" =>
           \A i \in DOMAIN s.node.fields :
             LET f == s.node.fields[i] IN
             f.node.kind = "Reference" =>
               (InRequired(s.frag, f.name) <=> (~f.mods.optional /\ ~f.mods.default.has))

(* two written documents hold references to different collections, one at  *)
(* a required field, with the same fragment                                *)
C15_Witness ==
  \E c, d \in Names :
    /\ Emitting(c) /\ Emitting(d)
    /\ \E s \in ReferenceSites(c), t \in ReferenceSites(d) :
         /\ s.node.collection # t.node.collection
         /\ s.frag = t.frag
    /\ \E i \in DOMAIN tree[c].fields :
         /\ tree[c].fields[i].node.kind = "Reference"
         /\ tree[c].fields[i].mods = Plain
         /\ InRequired(EntryInDoc(c), tree[c].fields[i].name)

(* C16: a tuple of n element types lowers to an array with minItems =      *)
(* maxItems = n whose `items` is the list of the n lowered element types   *)
(* in position; an array lowers with `items` the single lowered element    *)
(* type, and has minItems/maxItems only for a declared bound.              *)
C16_TuplePositional ==
  \A c \in Names : Lowered(c) =>
    \A s \in SitesOf(c) :
      /\ s.node.kind = "Tuple" =>
           LET n == Len(s.node.elements) IN
           /\ s.frag.type = "array"
           /\ s.frag.minItems = n /\ s.frag.maxItems = n
           /\ DOMAIN s.frag.items = {"list"}
           /\ Len(s.frag.items.list) = n
           /\ \A i \in 1..n : s.frag.items.list[i] = lowerNode(s.node.elements[i])
      /\ s.node.kind = "Array" =>
           /\ s.frag.type = "array"
           /\ s.frag.items = lowerNode(s.node.element)
           /\ "list" \notin DOMAIN s.frag.items
           /\ "minItems" \in DOMAIN s.frag <=> s.node.min.set
           /\ "maxItems" \in DOMAIN s.frag <=> s.node.max.set
           /\ s.node.min.set => s.frag.minItems = s.node.min.n
           /\ s.node.max.set => s.frag.maxItems = s.node.max.n

(* a written document holds a tuple of a number and an array, the array    *)
(* with a declared minimum and no maximum                                  *)
C16_Witness ==
  \E c \in Names :
    /\ Emitting(c)
    /\ \E s \in SitesOf(c) :
         /\ s.node.kind = "Tuple"
         /\ Len(s.node.elements) = 2
         /\ s.node.elements[1].kind = "Number"
         /\ s.node.elements[2].kind = "Array"
         /\ s.node.elements[2].min.set /\ ~s.node.elements[2].max.set
         /\ s.frag.maxItems = 2
         /\ DOMAIN s.frag.items.list[2] \cap {"minItems", "maxItems"} = {"minItems"}

DescriptionKeys == {"description", "markdownDescription"}

(* C17: at every site of every node variant, a field with a description    *)
(* has both `description` and `markdownDescription`, each the declared     *)
(* text; a field without a description has neither key.                    *)
C17_DescriptionTwice ==
  \A c \in Names : Lowered(c) =>
    \A s \in SitesOf(c) :
      IF s.mods.description.has
      THEN /\ DescriptionKeys \subseteq DOMAIN s.frag
           /\ s.frag.description = s.mods.description.text
           /\ s.frag.markdownDescription = s.frag.description
           /\ WithoutKeys(s.frag, DescriptionKeys)
                = lower(s.node, [s.mods EXCEPT !.description = NoDescription])
      ELSE DOMAIN s.frag \cap DescriptionKeys = {}

(* a written document holds a discriminated union at a described field and *)
(* the same type at an undescribed one                                     *)
C17_Witness ==
  \E c \in Names :
    /\ Emitting(c)
    /\ \E s, t \in SitesOf(c) :
         /\ s.node.kind = "DiscriminatedUnion"
         /\ t.node = s.node
         /\ s.mods.description.has /\ ~t.mods.description.has
         /\ s.frag.markdownDescription = "The main title of the article"
         /\ DOMAIN t.frag = {"anyOf"}

HasMessage(b) == b.set /\ "msg" \in DOMAIN b

(* the constraints of a node that were declared with a message *)
MessagedConstraints(node) ==
  IF node.kind = "Array"
  THEN {k \in {"minItems", "maxItems"} :
          HasMessage(IF k = "minItems" THEN node.min ELSE node.max)}
  ELSE {}

RefinementMessages(node) ==
  {node.effects[i].message :
     i \in {j \in DOMAIN node.effects : node.effects[j].type = "refinement"}}

SomeFieldRequired(fs) ==
  \E i \in DOMAIN fs : ~fs[i].mods.optional /\ ~fs[i].mods.default.has

(* C21: an object has the key `required` exactly when at least one of its  *)
(* fields is required; an object whose fields are all optional or          *)
(* defaulted is emitted with type, properties and additionalProperties:    *)
(* false and without the key, never with an empty list.                    *)
C21_NoEmptyRequired ==
  \A c \in Names : Lowered(c) =>
    \A s \in SitesOf(c) :
      s.node.kind = "Object" =>
        /\ "required" \in DOMAIN s.frag <=> SomeFieldRequired(s.node.fields)
        /\ "required" \in DOMAIN s.frag => s.frag.required # <<>>
        /\ ~SomeFieldRequired(s.node.fields) =>
             /\ DOMAIN s.frag \ ModifierKeys = {"type", "properties", "additionalProperties"}
             /\ s.frag.type = "object"
             /\ s.frag.additionalProperties = JFalse
             /\ DOMAIN s.frag.properties = FieldNames(s.node.fields)

(* a written document holds, below the root, an object with one optional   *)
(* and one defaulted field and no `required` key, while the root has one   *)
C21_Witness ==
  \E c \in Names :
    /\ Emitting(c)
    /\ "required" \in DOMAIN EntryInDoc(c)
    /\ \E s \in SitesOf(c) :
         /\ s.node.kind = "Object"
         /\ s.node # tree[c]
         /\ Len(s.node.fields) = 2
         /\ s.node.fields[1].mods.optional /\ ~s.node.fields[1].mods.default.has
         /\ s.node.fields[2].mods.default.has /\ ~s.node.fields[2].mods.optional
         /\ "required" \notin DOMAIN s.frag

(* a collection generated on its own, in one go *)
AloneTree(c) == Resolve(Modules(project.placement), ConfigModule, Declaration(c), {})

AloneEntry(c) == lowerNode(AloneTree(c))

Alone(c) == document(c, Loader(c), AloneEntry(c))

RECURSIVE AllPaths(_, _)
AllPaths(node, path) ==
  {path} \cup UNION {AllPaths(Children(node)[i], Append(path, i)) : i \in DOMAIN Children(node)}

VisitedBefore(c, k) == {visited[c][j] : j \in 1..(k - 1)}

(* every lowered node was lowered once, after all of its children, and its *)
(* fragment is the lowering of its subtree                                 *)
PostOrder ==
  \A c \in Names :
    /\ \A k \in DOMAIN visited[c] :
         LET p == visited[c][k] IN
         /\ p \notin VisitedBefore(c, k)
         /\ ChildPaths(NodeAt(tree[c], p), p) \subseteq VisitedBefore(c, k)
         /\ p \in DOMAIN frags[c]
         /\ frags[c][p] = lowerNode(NodeAt(tree[c], p))
    /\ Lowered(c) =>
         /\ {visited[c][k] : k \in DOMAIN visited[c]} = AllPaths(tree[c], <<>>)
         /\ entry[c] = lowerNode(tree[c])
         /\ todo[c] = <<>>

WellFormed(c) == UnresolvedSites(c) = {}

Finished == \A c \in Names : WellFormed(c) => (Emitting(c) /\ doc[c] = Alone(c))

(* C23: for a finite tree whose identifiers all resolve, resolution,       *)
(* lowering and wrapping come to an end with the collection's document,    *)
(* and on the way every node, each expanded copy of a reused fragment      *)
(* included, is lowered once and after all of its children.                *)
C23_TotalPostOrder == []PostOrder /\ <>[]Finished

(* a document is written for a collection that uses one fragment at three  *)
(* sites, after each of the three copies was lowered node by node          *)
C23_Witness ==
  \E c \in Names :
    /\ Emitting(c)
    /\ Cardinality(UsesIn(c)) >= 3
    /\ Len(visited[c]) = Cardinality(AllPaths(tree[c], <<>>))
    /\ LET copies == {p \in AllPaths(tree[c], <<>>) : NodeAt(tree[c], p) = seoSchema} IN
       /\ Cardinality(copies) >= 3
       /\ \A p \in copies :
            \E j, k \in DOMAIN visited[c] :
              j < k /\ visited[c][j] = Append(p, 2) /\ visited[c][k] = p
    /\ visited[c][Len(visited[c])] = <<>>

====
